---- MODULE Spec2Model ----
(***************************************************************************)
(* Model of the indicator engine of Real-Time-Stock-Indicator              *)
(* (src/c_engine/indicators.c, indicators.h).                              *)
(*                                                                         *)
(* The engine computes on C doubles.  A double is modelled as a binary     *)
(* floating-point number <<m, e>> standing for m * 2^e, whose significand  *)
(* m has exactly MantBits bits (zero is <<0, 0>>), and every arithmetic    *)
(* operation rounds its exact result to the nearest such number, ties to   *)
(* even, as IEEE-754 does.  The exponent is unbounded: overflow to         *)
(* infinity, underflow and NaN inputs are outside the model.               *)
(***************************************************************************)
EXTENDS Integers, Sequences, FiniteSets, TLC

\* Significand width of the modelled doubles (DBL_MANT_DIG is 53 in C).
MantBits == 9

\* Longest price series drawn exhaustively from PriceVals.
MaxLen == 4

(***************************************************************************)
(* Floating-point arithmetic (the C operators on double).                  *)
(***************************************************************************)
Pow2[n \in 0..30] == IF n = 0 THEN 1 ELSE 2 * Pow2[n - 1]

Abs(x) == IF x < 0 THEN -x ELSE x

Sgn(x) == IF x < 0 THEN -1 ELSE IF x > 0 THEN 1 ELSE 0

\* Number of bits of a positive integer.
BitLen(x) == CHOOSE k \in 1..31 : Pow2[k - 1] <= x /\ (k = 31 \/ x < Pow2[k])

FZero == <<0, 0>>

\* The result of a division by zero (an infinity or NaN in C); never an
\* operand of a later operation on any path of the engine.
NonFinite == <<0, 1>>

\* q * 2^e with q up to 2^MantBits: 2^MantBits itself takes the next exponent.
Renorm(sign, q, e) ==
    IF q = Pow2[MantBits] THEN <<sign * Pow2[MantBits - 1], e + 1>>
    ELSE <<sign * q, e>>

\* A significand a of n > MantBits bits cut to its MantBits leading bits q,
\* rounded up when the bits cut off, r, are more than half a unit of q, or
\* exactly half and q is odd.
Cut(sign, q, r, half, e) ==
    Renorm(sign, IF r > half \/ (r = half /\ q % 2 = 1) THEN q + 1 ELSE q, e)

\* m * 2^e, m of n bits, as a double.
RoundBits(m, e, n) ==
    IF n <= MantBits
    THEN <<m * Pow2[MantBits - n], e - (MantBits - n)>>
    ELSE Cut(Sgn(m), Abs(m) \div Pow2[n - MantBits], Abs(m) % Pow2[n - MantBits],
             Pow2[n - MantBits - 1], e + (n - MantBits))

\* The double nearest to m * 2^e, ties to even.
Round(m, e) == IF m = 0 THEN FZero ELSE RoundBits(m, e, BitLen(Abs(m)))

\* (double) n, and the literals 0.0, 1, 2.0, 100, ...
FromInt(n) == Round(n, 0)

FNeg(a) == <<-a[1], a[2]>>

\* a + b.  Operands more than MantBits + 1 binary places apart: the smaller
\* one only decides the direction of rounding.
FAdd(a, b) ==
    IF a[1] = 0 THEN b
    ELSE IF b[1] = 0 THEN a
    ELSE IF a[2] - b[2] > MantBits + 1 THEN Round(8 * a[1] + Sgn(b[1]), a[2] - 3)
    ELSE IF b[2] - a[2] > MantBits + 1 THEN Round(8 * b[1] + Sgn(a[1]), b[2] - 3)
    ELSE IF a[2] >= b[2] THEN Round(a[1] * Pow2[a[2] - b[2]] + b[1], b[2])
    ELSE Round(a[1] + b[1] * Pow2[b[2] - a[2]], a[2])

FSub(a, b) == FAdd(a, FNeg(b))

FMul(a, b) ==
    IF a[1] = 0 \/ b[1] = 0 THEN FZero
    ELSE Round(a[1] * b[1], a[2] + b[2])

\* a / b: the quotient to MantBits + 2 bits and a sticky bit, then rounded.
Quot(sign, n, d, e) ==
    Round(sign * (2 * (n \div d) + (IF n % d = 0 THEN 0 ELSE 1)), e)

FDiv(a, b) ==
    IF b[1] = 0 THEN NonFinite
    ELSE IF a[1] = 0 THEN FZero
    ELSE Quot(Sgn(a[1]) * Sgn(b[1]), Abs(a[1]) * Pow2[MantBits + 2], Abs(b[1]),
              a[2] - b[2] - (MantBits + 2) - 1)

\* The integer square root of n, bit by bit from bit k down.
RECURSIVE ISqrt(_, _, _)
ISqrt(n, r, k) ==
    IF k < 0 THEN r
    ELSE IF (r + Pow2[k]) * (r + Pow2[k]) <= n
         THEN ISqrt(n, r + Pow2[k], k - 1)
         ELSE ISqrt(n, r, k - 1)

\* The root of n * 2^e (e even) to MantBits + 2 bits and a sticky bit, rounded.
Root(n, root, e) ==
    Round(2 * root + (IF root * root = n THEN 0 ELSE 1), (e \div 2) - 1)

\* sqrt(m * 2^(e + s)), s chosen to make e even.
SqrtScaled(m, e, s) == Root(m * Pow2[s], ISqrt(m * Pow2[s], 0, MantBits + 3), e - s)

\* sqrt(a) for a >= 0, correctly rounded.
FSqrt(a) ==
    IF a[1] = 0 THEN FZero
    ELSE SqrtScaled(a[1], a[2],
                    IF (a[2] - (MantBits + 3)) % 2 = 0
                    THEN MantBits + 3 ELSE MantBits + 4)

\* a < b
FLt(a, b) ==
    IF a[1] <= 0 /\ b[1] <= 0
    THEN IF a[1] = 0 \/ b[1] = 0 THEN a[1] < b[1]
         ELSE a[2] > b[2] \/ (a[2] = b[2] /\ a[1] < b[1])
    ELSE IF a[1] <= 0 \/ b[1] <= 0 THEN a[1] < b[1]
    ELSE a[2] < b[2] \/ (a[2] = b[2] /\ a[1] < b[1])

FLe(a, b) == ~FLt(b, a)

(***************************************************************************)
(* The C heap.  A pointer is NULL or the number of a block; mem[p] is the  *)
(* block's content, a sequence of cells (C index i is cell i + 1), each a  *)
(* double or Uninit.  mallocs counts the calls of malloc; the calls whose  *)
(* ordinal is in fail return NULL.  An access outside a live block, or of  *)
(* a cell never written, is undefined behaviour: it is recorded in errs    *)
(* and the loop it happens in stops there.                                 *)
(***************************************************************************)
NULL == 0

Uninit == <<>>

EXIT_SUCCESS == 0

EXIT_FAILURE == 1

EmptyHeap(fail) ==
    [mem |-> <<>>, live |-> {}, mallocs |-> 0, fail |-> fail,
     errs |-> {}, stderr |-> <<>>, exited |-> FALSE]

\* A block the caller owns and passes in (a price or volume series).
CallerBlock(h, data) ==
    [h EXCEPT !.mem = Append(@, data), !.live = @ \cup {Len(h.mem) + 1}]

\* malloc(count * sizeof(double)): [h, ptr].
Malloc(h, count) ==
    IF h.mallocs + 1 \in h.fail \/ count < 0
    THEN [h |-> [h EXCEPT !.mallocs = @ + 1], ptr |-> NULL]
    ELSE [h |-> [h EXCEPT !.mallocs = @ + 1,
                          !.live = @ \cup {Len(h.mem) + 1},
                          !.mem = Append(@, [i \in 1..count |-> Uninit])],
          ptr |-> Len(h.mem) + 1]

\* free(p): a no-op on NULL; freeing a block that is not live is an error.
Free(h, p) ==
    IF p = NULL THEN h
    ELSE IF p \in h.live
         THEN [h EXCEPT !.live = @ \ {p}, !.mem[p] = <<>>]
         ELSE [h EXCEPT !.errs = @ \cup {"invalid free"}]

\* fprintf(stderr, msg)
Fprintf(h, msg) == [h EXCEPT !.stderr = Append(@, msg)]

\* p[i] may be read: a cell of a live block that holds a value.
Readable(h, p, i) ==
    /\ p \in h.live
    /\ i >= 0 /\ i < Len(h.mem[p])
    /\ h.mem[p][i + 1] # Uninit

\* The value of p[i]; a read that is not Readable is recorded by Touch.
Load(h, p, i) == IF Readable(h, p, i) THEN h.mem[p][i + 1] ELSE FZero

\* The heap after reading p[lo .. hi].
Touch(h, p, lo, hi) ==
    IF \A i \in lo..hi : Readable(h, p, i) THEN h
    ELSE [h EXCEPT !.errs = @ \cup {"invalid read"}]

\* p[i] = v
Store(h, p, i, v) ==
    IF p \in h.live /\ i >= 0 /\ i < Len(h.mem[p])
    THEN [h EXCEPT !.mem[p][i + 1] = v]
    ELSE [h EXCEPT !.errs = @ \cup {"invalid write"}]

(***************************************************************************)
(* Each C function is an operator from the heap and the arguments to       *)
(* [h, ret]: the heap and the value when it returns.  A function's later   *)
(* statements are operators of their own, given the results of the         *)
(* statements before them.                                                 *)
(***************************************************************************)

(***************************************************************************)
(* compute_SMA                                                             *)
(***************************************************************************)
SMA_rejects(prices, length, window) ==
    \/ prices = NULL \/ length = 0 \/ window <= 0
    \/ window >= length

\* A result one value short: the last window left out.
SMA_result_length_short(length, window) == length - window

SMA_result_length(length, window) == length - window + 1

\* The inner loop: sum += prices[i + j] for j .. window - 1.
RECURSIVE SMA_sum(_, _, _, _, _, _)
SMA_sum(h, prices, window, i, j, sum) ==
    IF j < window
    THEN SMA_sum(h, prices, window, i, j + 1, FAdd(sum, Load(h, prices, i + j)))
    ELSE sum

\* The outer loop: SMA_Values[i] = sum / window for i .. result_length - 1.
RECURSIVE SMA_loop(_, _, _, _, _, _)
SMA_loop(h, prices, window, SMA_Values, result_length, i) ==
    IF i < result_length /\ h.errs = {}
    THEN SMA_loop(Store(Touch(h, prices, i, i + window - 1), SMA_Values, i,
                        FDiv(SMA_sum(h, prices, window, i, 0, FZero),
                             FromInt(window))),
                  prices, window, SMA_Values, result_length, i + 1)
    ELSE h

\* From the check of malloc's result on; m is what malloc returned.
SMA_fill(m, prices, window, result_length) ==
    IF m.ptr = NULL
    THEN [h |-> Fprintf(m.h, "Malloc failed."), ret |-> NULL]
    ELSE [h |-> SMA_loop(m.h, prices, window, m.ptr, result_length, 0),
          ret |-> m.ptr]

compute_SMA(h, prices, length, window) ==
    IF SMA_rejects(prices, length, window)
    THEN [h |-> h, ret |-> NULL]
    ELSE SMA_fill(Malloc(h, SMA_result_length(length, window)), prices, window,
                  SMA_result_length(length, window))

\* The SMA helper compute_EMA calls for its seed.
get_SMA(h, prices, length, window) == compute_SMA(h, prices, length, window)

(***************************************************************************)
(* compute_EMA                                                             *)
(***************************************************************************)
EMA_rejects(prices, length, window) ==
    \/ prices = NULL \/ length = 0 \/ window = 0
    \/ window >= length

EMA_result_length(length, window) == length - window + 1

\* The multiplier 2 / window.
EMA_alpha_period(window) == FDiv(FromInt(2), FromInt(window))

EMA_alpha(window) == FDiv(FromInt(2), FAdd(FromInt(window), FromInt(1)))

\* EMA(current) = ((Price(current) - EMA(prev)) x Multiplier) + EMA(prev)
EMA_next(price, prev, alpha) == FAdd(FMul(FSub(price, prev), alpha), prev)

\* Index of the price that enters EMA_Values[i].
EMA_price_index(i, window) == i + window - 1

RECURSIVE EMA_loop(_, _, _, _, _, _, _)
EMA_loop(h, prices, window, alpha, EMA_Values, result_length, i) ==
    IF i < result_length /\ h.errs = {}
    THEN EMA_loop(Store(Touch(Touch(h, prices, EMA_price_index(i, window),
                                    EMA_price_index(i, window)),
                              EMA_Values, i - 1, i - 1),
                        EMA_Values, i,
                        EMA_next(Load(h, prices, EMA_price_index(i, window)),
                                 Load(h, EMA_Values, i - 1), alpha)),
                  prices, window, alpha, EMA_Values, result_length, i + 1)
    ELSE h

\* From the data validation on; s is what get_SMA returned.
EMA_fill(s, EMA_Values, prices, window, alpha, result_length) ==
    IF EMA_Values = NULL
    THEN [h |-> Fprintf(Free(s.h, s.ret), "Malloc failed."), ret |-> NULL]
    ELSE IF s.ret = NULL
    THEN [h |-> Fprintf(Free(Free(s.h, EMA_Values), s.ret), "Get SMA failed."),
          ret |-> NULL]
    ELSE [h |-> Free(EMA_loop(Store(Touch(s.h, s.ret, 0, 0), EMA_Values, 0,
                                    Load(s.h, s.ret, 0)),
                              prices, window, alpha, EMA_Values, result_length, 1),
                     s.ret),
          ret |-> EMA_Values]

\* From the call of get_SMA on; e is what malloc returned for EMA_Values.
EMA_seed(e, prices, length, window) ==
    EMA_fill(get_SMA(e.h, prices, length, window), e.ptr, prices, window,
             EMA_alpha(window), EMA_result_length(length, window))

compute_EMA(h, prices, length, window) ==
    IF EMA_rejects(prices, length, window)
    THEN [h |-> h, ret |-> NULL]
    ELSE EMA_seed(Malloc(h, EMA_result_length(length, window)), prices, length,
                  window)

(***************************************************************************)
(* compute_RSI                                                             *)
(***************************************************************************)
\* The inclusive window bound: a window as long as the series let through.
RSI_rejects_inclusive(prices, length, window) ==
    prices = NULL \/ window > length \/ window <= 0

RSI_rejects(prices, length, window) ==
    prices = NULL \/ window >= length \/ window <= 0

\* The length indicators.h documents: length - window + 1.
RSI_result_length_documented(length, window) == length - window + 1

RSI_result_length(length, window) == length - window

\* changes[i - 1] = prices[i] - prices[i - 1] for i .. length - 1.
RECURSIVE RSI_changes(_, _, _, _, _)
RSI_changes(h, prices, length, changes, i) ==
    IF i < length /\ h.errs = {}
    THEN RSI_changes(Store(Touch(h, prices, i - 1, i), changes, i - 1,
                           FSub(Load(h, prices, i), Load(h, prices, i - 1))),
                     prices, length, changes, i + 1)
    ELSE h

\* One step of the first window for the change c = changes[i]; the state is
\* [h, gain_sum, loss_sum].
RSI_first_step(st, c, gains, losses, i) ==
    IF FLt(FZero, c)
    THEN [h |-> Store(Store(st.h, gains, i, c), losses, i, FZero),
          gain_sum |-> FAdd(st.gain_sum, c),
          loss_sum |-> st.loss_sum]
    ELSE IF FLt(c, FZero)
    THEN [h |-> Store(Store(st.h, losses, i, FMul(FromInt(-1), c)), gains, i, FZero),
          gain_sum |-> st.gain_sum,
          loss_sum |-> FAdd(st.loss_sum, FMul(FromInt(-1), c))]
    ELSE [h |-> Store(Store(st.h, gains, i, FZero), losses, i, FZero),
          gain_sum |-> st.gain_sum,
          loss_sum |-> st.loss_sum]

\* The first window: gains[i], losses[i] and their sums, for i .. window - 1.
RECURSIVE RSI_first(_, _, _, _, _, _)
RSI_first(st, window, changes, gains, losses, i) ==
    IF i < window /\ st.h.errs = {}
    THEN RSI_first(RSI_first_step([st EXCEPT !.h = Touch(@, changes, i, i)],
                                  Load(st.h, changes, i), gains, losses, i),
                   window, changes, gains, losses, i + 1)
    ELSE st

\* 100 - 100 / RS, the 1 + left out.
RSI_value_plain(avg_gain, avg_loss) ==
    IF avg_loss = FZero
    THEN FromInt(100)
    ELSE FSub(FromInt(100), FDiv(FromInt(100), FDiv(avg_gain, avg_loss)))

\* The value stored for one position: 100 when avg_loss == 0, else
\* 100 - (100 / (1 + RS)) with RS = avg_gain / avg_loss.
RSI_value(avg_gain, avg_loss) ==
    IF avg_loss = FZero
    THEN FromInt(100)
    ELSE FSub(FromInt(100),
              FDiv(FromInt(100), FAdd(FromInt(1), FDiv(avg_gain, avg_loss))))

\* Wilder's smoothening formula: updates weighted average.
Wilder(avg, x, window) ==
    FDiv(FAdd(FMul(avg, FromInt(window - 1)), x), FromInt(window))

RSI_gain(c) == IF FLt(FZero, c) THEN c ELSE FZero

RSI_loss(c) == IF FLt(c, FZero) THEN FMul(FromInt(-1), c) ELSE FZero

\* The later loop run to i < length.
RSI_loop_end_inclusive(length) == length

\* The loop over the later changes runs while i < length - 1.
RSI_loop_end(length) == length - 1

\* One later step for the change c = changes[i]; the state is
\* [h, avg_gain, avg_loss], avg_gain and avg_loss already updated.
RSI_store(h, avg_gain, avg_loss, RSI_Values, k) ==
    [h |-> Store(h, RSI_Values, k, RSI_value(avg_gain, avg_loss)),
     avg_gain |-> avg_gain, avg_loss |-> avg_loss]

RECURSIVE RSI_loop(_, _, _, _, _, _)
RSI_loop(st, length, window, changes, RSI_Values, i) ==
    IF i < RSI_loop_end(length) /\ st.h.errs = {}
    THEN RSI_loop(RSI_store(Touch(st.h, changes, i, i),
                            Wilder(st.avg_gain, RSI_gain(Load(st.h, changes, i)),
                                   window),
                            Wilder(st.avg_loss, RSI_loss(Load(st.h, changes, i)),
                                   window),
                            RSI_Values, i - window + 1),
                  length, window, changes, RSI_Values, i + 1)
    ELSE st

\* The end of compute_RSI with free(losses) left out.
RSI_done_leak(st, b, RSI_Values) ==
    [h |-> Free(Free(st.h, b.changes), b.gains), ret |-> RSI_Values]

\* The end: the three work arrays are freed.
RSI_done(st, b, RSI_Values) ==
    [h |-> Free(Free(Free(st.h, b.changes), b.gains), b.losses),
     ret |-> RSI_Values]

\* From the averages of the first window on; f is the state after it.
RSI_rest(f, b, RSI_Values, length, window) ==
    RSI_done(RSI_loop(RSI_store(f.h, FDiv(f.gain_sum, FromInt(window)),
                                FDiv(f.loss_sum, FromInt(window)), RSI_Values, 0),
                      length, window, b.changes, RSI_Values, window),
             b, RSI_Values)

\* From the check of the three work arrays on; b is [h, changes, gains, losses].
RSI_run(b, RSI_Values, prices, length, window) ==
    IF b.changes = NULL \/ b.gains = NULL \/ b.losses = NULL
    THEN \* exit(EXIT_FAILURE): the call does not return
         [h |-> [Fprintf(Free(Free(Free(Free(b.h, RSI_Values), b.changes),
                                   b.gains), b.losses),
                         "Malloc failed.")
                 EXCEPT !.exited = TRUE],
          ret |-> NULL]
    ELSE RSI_rest(RSI_first([h |-> RSI_changes(b.h, prices, length, b.changes, 1),
                             gain_sum |-> FZero, loss_sum |-> FZero],
                            window, b.changes, b.gains, b.losses, 0),
                  b, RSI_Values, length, window)

\* malloc of changes, gains and losses, in this order: [h, changes, gains, losses].
RSI_work3(g, changes, gains, l) ==
    [h |-> l.h, changes |-> changes, gains |-> gains, losses |-> l.ptr]

RSI_work2(c, g, count) == RSI_work3(g, c.ptr, g.ptr, Malloc(g.h, count))

RSI_work1(c, count) == RSI_work2(c, Malloc(c.h, count), count)

RSI_work(h, count) == RSI_work1(Malloc(h, count), count)

\* From the check of malloc's result on; r is what malloc returned.
RSI_alloc(r, prices, length, window) ==
    IF r.ptr = NULL
    THEN [h |-> Fprintf(r.h, "Malloc failed."), ret |-> NULL]
    ELSE RSI_run(RSI_work(r.h, length - 1), r.ptr, prices, length, window)

compute_RSI(h, prices, length, window) ==
    IF RSI_rejects(prices, length, window)
    THEN [h |-> h, ret |-> NULL]
    ELSE RSI_alloc(Malloc(h, RSI_result_length(length, window)), prices, length,
                   window)

(***************************************************************************)
(* Bollinger Bands                                                         *)
(***************************************************************************)
\* sum += difference * difference for j .. window - 1.
Square(x) == FMul(x, x)

RECURSIVE std_sum(_, _, _, _, _, _, _)
std_sum(h, prices, window, means, i, j, sum) ==
    IF j < window
    THEN std_sum(h, prices, window, means, i, j + 1,
                 FAdd(sum, Square(FSub(Load(h, prices, i + j), Load(h, means, i)))))
    ELSE sum

\* std_devs[i] = sqrt(sum / window) for i .. result_length - 1.
RECURSIVE std_loop(_, _, _, _, _, _, _)
std_loop(h, prices, window, means, std_devs, result_length, i) ==
    IF i < result_length /\ h.errs = {}
    THEN std_loop(Store(Touch(Touch(h, prices, i, i + window - 1), means, i, i),
                        std_devs, i,
                        FSqrt(FDiv(std_sum(h, prices, window, means, i, 0, FZero),
                                   FromInt(window)))),
                  prices, window, means, std_devs, result_length, i + 1)
    ELSE h

compute_std_devs(h, prices, length, window, means, std_devs) ==
    IF prices = NULL \/ means = NULL \/ std_devs = NULL
       \/ length <= 0 \/ window <= 0 \/ window > length
    THEN [h |-> h, ret |-> EXIT_FAILURE]
    ELSE [h |-> std_loop(h, prices, window, means, std_devs,
                         length - window + 1, 0),
          ret |-> EXIT_SUCCESS]

\* The middle band freed as SMA_Values and again as band_values->middle_band.
free_bands_twice(h, b, band_values) ==
    Free(Free(Free(Free(Free(h, b.middle_band), b.middle_band), b.top_band),
              b.bottom_band), band_values)

\* The four frees of cleanup_bands, b the struct band_values points to.
free_bands(h, b, band_values) ==
    Free(Free(Free(Free(h, b.middle_band), b.top_band), b.bottom_band), band_values)

cleanup_bands(h, band_values) == free_bands(h, h.mem[band_values], band_values)

\* A pointer field no value has been assigned to.
Unassigned == -1

\* malloc(sizeof(BollingerBands)): a block holding the struct.
StructBands(m) ==
    IF m.ptr = NULL THEN m
    ELSE [h |-> [m.h EXCEPT !.mem[m.ptr] =
                    [middle_band |-> Unassigned, top_band |-> Unassigned,
                     bottom_band |-> Unassigned, length |-> 0]],
          ptr |-> m.ptr]

MallocBands(h) == StructBands(Malloc(h, 0))

BB_rejects(prices, length, window, std_devs) ==
    prices = NULL \/ window >= length \/ window <= 0 \/ FLe(std_devs, FZero)

\* The top band on the wrong side of the middle band.
top_value_below(mid, std_devs, stddev) == FSub(mid, FMul(std_devs, stddev))

top_value(mid, std_devs, stddev) == FAdd(mid, FMul(std_devs, stddev))

\* The multiplier subtracted in place of its product with the deviation.
bottom_value_unscaled(mid, std_devs, stddev) == FSub(mid, std_devs)

bottom_value(mid, std_devs, stddev) == FSub(mid, FMul(std_devs, stddev))

\* top_band[i], bottom_band[i] from middle_band[i] and stddev_values[i].
RECURSIVE bands_loop(_, _, _, _, _, _)
bands_loop(h, b, std_devs, stddev_values, result_length, i) ==
    IF i < result_length /\ h.errs = {}
    THEN bands_loop(
            Store(Store(Touch(Touch(h, b.middle_band, i, i), stddev_values, i, i),
                        b.top_band, i,
                        top_value(Load(h, b.middle_band, i), std_devs,
                                  Load(h, stddev_values, i))),
                  b.bottom_band, i,
                  bottom_value(Load(h, b.middle_band, i), std_devs,
                               Load(h, stddev_values, i))),
            b, std_devs, stddev_values, result_length, i + 1)
    ELSE h

\* The bands from the standard deviations, and the end; c is what
\* compute_std_devs returned.
BB_bands(c, b, band_values, std_devs, stddev_values) ==
    [h |-> Free(bands_loop(c.h, b, std_devs, stddev_values, b.length, 0),
                stddev_values),
     ret |-> band_values]

\* From the checks of the allocations on; h holds the struct b.
BB_fill(h, b, band_values, stddev_values, prices, length, window, std_devs) ==
    IF b.top_band = NULL \/ b.bottom_band = NULL \/ stddev_values = NULL
    THEN [h |-> Fprintf(cleanup_bands(Free(h, stddev_values), band_values),
                        "Malloc failed."),
          ret |-> NULL]
    ELSE IF b.middle_band = NULL
    THEN [h |-> Fprintf(cleanup_bands(Free(h, stddev_values), band_values),
                        "Get SMA failed."),
          ret |-> NULL]
    ELSE BB_bands(compute_std_devs(h, prices, length, window, b.middle_band,
                                   stddev_values),
                  b, band_values, std_devs, stddev_values)

\* The assignment of the struct's fields.
BB_assign(h, b, band_values, stddev_values, prices, length, window, std_devs) ==
    BB_fill([h EXCEPT !.mem[band_values] = b], b, band_values, stddev_values,
            prices, length, window, std_devs)

\* malloc of top_band, bottom_band and stddev_values, in this order.
BB_alloc3(SMA_Values, t, bo, sd, band_values, prices, length, window, std_devs) ==
    BB_assign(sd.h,
              [middle_band |-> SMA_Values, top_band |-> t.ptr,
               bottom_band |-> bo.ptr, length |-> length - window + 1],
              band_values, sd.ptr, prices, length, window, std_devs)

BB_alloc2(SMA_Values, t, bo, band_values, prices, length, window, std_devs) ==
    BB_alloc3(SMA_Values, t, bo, Malloc(bo.h, length - window + 1), band_values,
              prices, length, window, std_devs)

BB_alloc1(SMA_Values, t, band_values, prices, length, window, std_devs) ==
    BB_alloc2(SMA_Values, t, Malloc(t.h, length - window + 1), band_values,
              prices, length, window, std_devs)

\* From the call of compute_SMA on; s is what it returned.
BB_middle(s, band_values, prices, length, window, std_devs) ==
    BB_alloc1(s.ret, Malloc(s.h, length - window + 1), band_values,
              prices, length, window, std_devs)

\* From the check of the struct's malloc on; bv is what it returned.
BB_struct(bv, prices, length, window, std_devs) ==
    IF bv.ptr = NULL
    THEN [h |-> Fprintf(bv.h, "Malloc failed."), ret |-> NULL]
    ELSE BB_middle(compute_SMA(bv.h, prices, length, window), bv.ptr,
                   prices, length, window, std_devs)

compute_bollinger_bands(h, prices, length, window, std_devs) ==
    IF BB_rejects(prices, length, window, std_devs)
    THEN [h |-> h, ret |-> NULL]
    ELSE BB_struct(MallocBands(h), prices, length, window, std_devs)

(***************************************************************************)
(* compute_MACD, cleanup_MACD and compute_OBV: declared in indicators.h,   *)
(* their bodies written from sections 4.5 and 4.6 of the specification.    *)
(***************************************************************************)
FastPeriod == 12

SlowPeriod == 26

SignalPeriod == 9

MACD_rejects(prices, length) ==
    prices = NULL \/ length - SlowPeriod - SignalPeriod + 1 <= 0

\* The length field of the result.
MACD_length(length) == length - SlowPeriod - SignalPeriod + 1

\* macdRaw[i] = EMA12[i + 14] - EMA26[i] for i .. count - 1.
RECURSIVE MACD_raw(_, _, _, _, _, _)
MACD_raw(h, EMA12, EMA26, macdRaw, count, i) ==
    IF i < count /\ h.errs = {}
    THEN MACD_raw(Store(Touch(Touch(h, EMA12, i + SlowPeriod - FastPeriod,
                                    i + SlowPeriod - FastPeriod),
                              EMA26, i, i),
                        macdRaw, i,
                        FSub(Load(h, EMA12, i + SlowPeriod - FastPeriod),
                             Load(h, EMA26, i))),
                  EMA12, EMA26, macdRaw, count, i + 1)
    ELSE h

\* MACD_Values[i] = macdRaw[i + 8] for i .. count - 1.
RECURSIVE MACD_align(_, _, _, _, _)
MACD_align(h, macdRaw, MACD_Values, count, i) ==
    IF i < count /\ h.errs = {}
    THEN MACD_align(Store(Touch(h, macdRaw, i + SignalPeriod - 1,
                                i + SignalPeriod - 1),
                          MACD_Values, i, Load(h, macdRaw, i + SignalPeriod - 1)),
                    macdRaw, MACD_Values, count, i + 1)
    ELSE h

\* malloc(sizeof(MACD)) and the assignment of its fields.
StructMACD(m, length, MACD_Values, signal_line_Values) ==
    IF m.ptr = NULL THEN m
    ELSE [h |-> [m.h EXCEPT !.mem[m.ptr] =
                    [length |-> length, MACD_Values |-> MACD_Values,
                     signal_line_Values |-> signal_line_Values]],
          ptr |-> m.ptr]

\* The end: the aligned MACD line, and the raw series released.
MACD_done(st, mv, sig, macdRaw, outLen) ==
    IF sig.ret = NULL \/ mv.ptr = NULL \/ st.ptr = NULL
    THEN [h |-> Free(Free(Free(Free(st.h, st.ptr), mv.ptr), sig.ret), macdRaw),
          ret |-> NULL]
    ELSE [h |-> Free(MACD_align(st.h, macdRaw, mv.ptr, outLen, 0), macdRaw),
          ret |-> st.ptr]

MACD_struct(mv, sig, macdRaw, outLen, length) ==
    MACD_done(StructMACD(Malloc(mv.h, 0), MACD_length(length), mv.ptr, sig.ret),
              mv, sig, macdRaw, outLen)

\* From the signal line on; sig is what compute_EMA returned for it.  The
\* signal line and the MACD line aligned with it have rawLen - 9 + 1 values.
MACD_signal(sig, macdRaw, rawLen, length) ==
    MACD_struct(Malloc(sig.h, rawLen - SignalPeriod + 1), sig, macdRaw,
                rawLen - SignalPeriod + 1, length)

\* From the raw series on; h holds it, the two EMAs released.
MACD_smooth(h, macdRaw, rawLen, length) ==
    MACD_signal(compute_EMA(h, macdRaw, rawLen, SignalPeriod), macdRaw, rawLen,
                length)

\* From the check of the raw series' malloc on; raw is what it returned.
MACD_diff(raw, EMA12, EMA26, rawLen, length) ==
    IF raw.ptr = NULL
    THEN [h |-> Free(Free(raw.h, EMA12), EMA26), ret |-> NULL]
    ELSE MACD_smooth(Free(Free(MACD_raw(raw.h, EMA12, EMA26, raw.ptr, rawLen, 0),
                               EMA12), EMA26),
                     raw.ptr, rawLen, length)

\* From the check of the two EMAs on; e12 and e26 are what compute_EMA returned.
MACD_emas(e12, e26, length) ==
    IF e12.ret = NULL \/ e26.ret = NULL
    THEN [h |-> Free(Free(e26.h, e12.ret), e26.ret), ret |-> NULL]
    ELSE MACD_diff(Malloc(e26.h, length - SlowPeriod + 1), e12.ret, e26.ret,
                   length - SlowPeriod + 1, length)

MACD_slow(e12, prices, length) ==
    MACD_emas(e12, compute_EMA(e12.h, prices, length, SlowPeriod), length)

compute_MACD(h, prices, length) ==
    IF MACD_rejects(prices, length)
    THEN [h |-> h, ret |-> NULL]
    ELSE MACD_slow(compute_EMA(h, prices, length, FastPeriod), prices, length)

\* cleanup_MACD: the two series, then the struct.
free_MACD(h, m, macd) ==
    Free(Free(Free(h, m.MACD_Values), m.signal_line_Values), macd)

cleanup_MACD(h, macd) == free_MACD(h, h.mem[macd], macd)

OBV_rejects(prices, volumes, length) ==
    prices = NULL \/ volumes = NULL \/ length <= 0

\* The volume added on every change of price.
OBV_next_unsigned(prev, p0, p1, volume) ==
    IF FLt(p0, p1) \/ FLt(p1, p0) THEN FAdd(prev, volume) ELSE prev

\* OBV[i] from OBV[i - 1], the prices at i - 1 and i, and volumes[i].
OBV_next(prev, p0, p1, volume) ==
    IF FLt(p0, p1) THEN FAdd(prev, volume)
    ELSE IF FLt(p1, p0) THEN FSub(prev, volume)
    ELSE prev

RECURSIVE OBV_loop(_, _, _, _, _, _)
OBV_loop(h, prices, volumes, OBV_Values, length, i) ==
    IF i < length /\ h.errs = {}
    THEN OBV_loop(Store(Touch(Touch(Touch(h, prices, i - 1, i), volumes, i, i),
                              OBV_Values, i - 1, i - 1),
                        OBV_Values, i,
                        OBV_next(Load(h, OBV_Values, i - 1), Load(h, prices, i - 1),
                                 Load(h, prices, i), Load(h, volumes, i))),
                  prices, volumes, OBV_Values, length, i + 1)
    ELSE h

OBV_fill(m, prices, volumes, length) ==
    IF m.ptr = NULL
    THEN [h |-> m.h, ret |-> NULL]
    ELSE [h |-> OBV_loop(Store(m.h, m.ptr, 0, FZero), prices, volumes, m.ptr,
                         length, 1),
          ret |-> m.ptr]

compute_OBV(h, prices, volumes, length) ==
    IF OBV_rejects(prices, volumes, length)
    THEN [h |-> h, ret |-> NULL]
    ELSE OBV_fill(Malloc(h, length), prices, volumes, length)

(***************************************************************************)
(* The caller: one indicator call at a time on a fresh heap that holds the *)
(* caller's series, then the release of the result.                        *)
(***************************************************************************)
VARIABLES
    pc,     \* "idle", the call that has returned, or "released"
    args,   \* the arguments of that call
    heap,   \* the heap when the call returned
    ret,    \* the pointer the call returned
    thr     \* the calls in progress when calls run concurrently, else <<>>

vars == <<pc, args, heap, ret, thr>>

\* The test's series 1, 2, ..., 30 and its window.
ExampleLen == 30

ExampleWindow == 5

\* Most malloc calls of one indicator call whose failure is modelled.
MaxFail == 5

Ramp(n) == [i \in 1..n |-> FromInt(i)]

Tenth == FDiv(FromInt(1), FromInt(10))

PriceVals == {Tenth, FromInt(2), FromInt(-3)}

Series == UNION {[1..n -> PriceVals] : n \in 0..MaxLen} \cup {Ramp(ExampleLen)}

Windows == -2..(MaxLen + 1) \cup {ExampleWindow}

Multipliers == {FromInt(2), Tenth, FZero, FromInt(-1)}

FailSets == SUBSET (1..MaxFail)

\* What a call is given: the series (null: the pointer passed is NULL), the
\* length passed with it, the window, and the malloc calls that will fail.
\* Every series with its own length and no allocation failure; NULL, empty
\* and negative lengths; one series under every pattern of failures.
CallInputs ==
    {[null |-> FALSE, data |-> d, length |-> Len(d), window |-> w, fail |-> {}] :
        d \in Series, w \in Windows}
    \cup
    {[null |-> n, data |-> <<>>, length |-> l, window |-> w, fail |-> {}] :
        n \in BOOLEAN, l \in {-1, 0, MaxLen}, w \in Windows}
    \cup
    {[null |-> FALSE, data |-> Ramp(MaxLen), length |-> MaxLen, window |-> w,
      fail |-> f] : w \in Windows, f \in FailSets}

MACDLens == {30, 34, 35, 36}

MACDInputs ==
    {[null |-> FALSE, data |-> Ramp(n), length |-> n, window |-> 0, fail |-> {}] :
        n \in MACDLens}
    \cup {[null |-> TRUE, data |-> <<>>, length |-> 36, window |-> 0, fail |-> {}]}

OBVInputs ==
    {in \in CallInputs : in.window = 1 /\ in.fail = {} /\ Len(in.data) <= MaxLen}

VolumeVals == {FromInt(7), FromInt(-4)}

\* The heap a call starts on, and the pointer it is passed.
StartHeap(in) ==
    IF in.null THEN EmptyHeap(in.fail) ELSE CallerBlock(EmptyHeap(in.fail), in.data)

PricesPtr(in) == IF in.null THEN NULL ELSE 1

NoArgs ==
    [null |-> TRUE, data |-> <<>>, length |-> 0, window |-> 0, fail |-> {},
     std_devs |-> FZero, volumes |-> <<>>]

Init ==
    /\ pc = "idle"
    /\ args = NoArgs
    /\ heap = EmptyHeap({})
    /\ ret = NULL
    /\ thr = <<>>

Returned(name, in, std_devs, volumes, r) ==
    /\ pc' = name
    /\ args' = [null |-> in.null, data |-> in.data, length |-> in.length,
                window |-> in.window, fail |-> in.fail, std_devs |-> std_devs,
                volumes |-> volumes]
    /\ heap' = r.h
    /\ ret' = r.ret
    /\ UNCHANGED thr

Call_compute_SMA ==
    /\ pc = "idle"
    /\ \E in \in CallInputs :
          Returned("SMA", in, FZero, <<>>,
                   compute_SMA(StartHeap(in), PricesPtr(in), in.length, in.window))

Call_compute_EMA ==
    /\ pc = "idle"
    /\ \E in \in CallInputs :
          Returned("EMA", in, FZero, <<>>,
                   compute_EMA(StartHeap(in), PricesPtr(in), in.length, in.window))

Call_compute_RSI ==
    /\ pc = "idle"
    /\ \E in \in CallInputs :
          Returned("RSI", in, FZero, <<>>,
                   compute_RSI(StartHeap(in), PricesPtr(in), in.length, in.window))

Call_compute_bollinger_bands ==
    /\ pc = "idle"
    /\ \E in \in CallInputs, k \in Multipliers :
          Returned("BB", in, k, <<>>,
                   compute_bollinger_bands(StartHeap(in), PricesPtr(in), in.length,
                                           in.window, k))

\* compute_MACD takes no window: the series of MACDLens, and NULL.
Call_compute_MACD ==
    /\ pc = "idle"
    /\ \E in \in MACDInputs :
          Returned("MACD", in, FZero, <<>>,
                   compute_MACD(StartHeap(in), PricesPtr(in), in.length))

\* compute_OBV takes no window: every series, with every volume series of
\* its length.  The volumes are the caller's second block.
Call_compute_OBV ==
    /\ pc = "idle"
    /\ \E in \in OBVInputs :
       \E v \in [1..Len(in.data) -> VolumeVals] :
          Returned("OBV", in, FZero, v,
                   compute_OBV(CallerBlock(StartHeap(in), v), PricesPtr(in),
                               IF in.null THEN NULL ELSE 2, in.length))

\* c_free(ptr): free(ptr).
c_free(h, ptr) == Free(h, ptr)

\* The caller releases a returned series.
Call_c_free ==
    /\ pc \in {"SMA", "EMA", "RSI", "OBV"}
    /\ ~heap.exited
    /\ ret # NULL
    /\ pc' = "released"
    /\ heap' = c_free(heap, ret)
    /\ UNCHANGED <<args, ret, thr>>

\* The caller releases a returned BollingerBands.
Call_cleanup_bands ==
    /\ pc = "BB"
    /\ ret # NULL
    /\ pc' = "released"
    /\ heap' = cleanup_bands(heap, ret)
    /\ UNCHANGED <<args, ret, thr>>

\* The caller releases a returned MACD.
Call_cleanup_MACD ==
    /\ pc = "MACD"
    /\ ret # NULL
    /\ pc' = "released"
    /\ heap' = cleanup_MACD(heap, ret)
    /\ UNCHANGED <<args, ret, thr>>

\* The caller goes on to its next call (a process that exited does not).
NextCall ==
    /\ pc # "idle"
    /\ ~heap.exited
    /\ pc' = "idle"
    /\ args' = NoArgs
    /\ heap' = EmptyHeap({})
    /\ ret' = NULL
    /\ UNCHANGED thr

Next ==
    \/ Call_compute_SMA
    \/ Call_compute_EMA
    \/ Call_compute_RSI
    \/ Call_compute_bollinger_bands
    \/ Call_compute_MACD
    \/ Call_compute_OBV
    \/ Call_c_free
    \/ Call_cleanup_bands
    \/ Call_cleanup_MACD
    \/ NextCall

Spec == Init /\ [][Next]_vars

(***************************************************************************)
(* What the claims speak of.                                               *)
(***************************************************************************)
\* The call was given a series with its own length and a window in 1 .. n - 1.
ValidCall ==
    /\ ~args.null
    /\ args.length = Len(args.data)
    /\ 1 <= args.window /\ args.window < args.length

\* No malloc the call made failed.
NoAllocFailure == args.fail \cap (1..heap.mallocs) = {}

\* The series a call returned.
Result == heap.mem[ret]

\* s[1] + ... + s[Len(s)] summed from the left, starting from 0.0.
RECURSIVE FSum(_)
FSum(s) ==
    IF s = <<>> THEN FZero
    ELSE FAdd(FSum(SubSeq(s, 1, Len(s) - 1)), s[Len(s)])

\* The mean of prices[i .. i + window - 1] (C indices).
Mean(data, i, window) ==
    FDiv(FSum(SubSeq(data, i + 1, i + window)), FromInt(window))

\* C1: for a non-null series of length n and 1 <= window < n, compute_SMA
\* returns exactly n - window + 1 elements, element i the arithmetic mean of
\* prices[i .. i + window - 1]; prices 1..30 with window 5 give 26 values, the
\* first 3.0 and the last 28.0.
C1_SMA_WindowedMean ==
    (pc = "SMA" /\ ValidCall /\ NoAllocFailure) =>
        /\ ret # NULL
        /\ heap.errs = {}
        /\ Len(Result) = args.length - args.window + 1
        /\ \A i \in 0..(args.length - args.window) :
              Result[i + 1] = Mean(args.data, i, args.window)
        /\ (args.data = Ramp(ExampleLen) /\ args.window = ExampleWindow) =>
              /\ Len(Result) = 26
              /\ Result[1] = FromInt(3)
              /\ Result[26] = FromInt(28)

C1_Witness ==
    /\ pc = "SMA" /\ ret # NULL
    /\ args.data = Ramp(ExampleLen) /\ args.window = ExampleWindow
    /\ Result[26] = FromInt(28)

\* C2: for compute_SMA, compute_EMA, compute_RSI and compute_bollinger_bands
\* and every length, a call with window <= 0 or window >= length returns NULL
\* and produces no output: no block it allocated is left, and it returns.
C2_BadWindowRejected ==
    (/\ pc \in {"SMA", "EMA", "RSI", "BB"}
     /\ (args.window <= 0 \/ args.window >= args.length)) =>
        /\ ret = NULL
        /\ ~heap.exited
        /\ heap.live = (IF args.null THEN {} ELSE {1})

\* A negative window, which compute_EMA's first test lets through.
C2_Witness ==
    /\ pc = "EMA" /\ ~args.null
    /\ args.window < 0 /\ args.length = Len(args.data) /\ args.length > 0
    /\ ret = NULL

\* C3: for 1 <= window < n compute_EMA returns n - window + 1 elements,
\* EMA[0] the first element of the SMA of the same prices and window, and
\* EMA[i] = alpha * (prices[i + window - 1] - EMA[i - 1]) + EMA[i - 1] for
\* i in 1 .. n - window, with alpha = 2 / (window + 1).
C3_EMA_Recurrence ==
    (pc = "EMA" /\ ValidCall /\ NoAllocFailure) =>
        /\ ret # NULL
        /\ heap.errs = {}
        /\ Len(Result) = args.length - args.window + 1
        /\ LET sma == compute_SMA(CallerBlock(EmptyHeap({}), args.data), 1,
                                  args.length, args.window)
           IN  Result[1] = sma.h.mem[sma.ret][1]
        /\ \A i \in 1..(args.length - args.window) :
              Result[i + 1] =
                 FAdd(FMul(FDiv(FromInt(2), FromInt(args.window + 1)),
                           FSub(args.data[i + args.window], Result[i])),
                      Result[i])

C3_Witness ==
    /\ pc = "EMA" /\ ValidCall /\ ret # NULL
    /\ args.window = 2 /\ args.length = MaxLen
    /\ Result[1] # Result[2] /\ Result[2] # Result[3]

\* The gain and the loss of the change from prices[k - 1] to prices[k].
GainOf(data, k) ==
    IF FLt(data[k], data[k + 1]) THEN FSub(data[k + 1], data[k]) ELSE FZero

LossOf(data, k) ==
    IF FLt(data[k + 1], data[k]) THEN FSub(data[k], data[k + 1]) ELSE FZero

\* The average gain and loss behind RSI value j, from the prices alone: the
\* simple averages of the first window changes for j = 0, and for j >= 1 the
\* Wilder update of those of j - 1 with the change prices[j + window] -
\* prices[j + window - 1].
RECURSIVE AvgAt(_, _, _)
AvgAt(data, window, j) ==
    IF j = 0
    THEN [gain |-> FDiv(FSum([k \in 1..window |-> GainOf(data, k)]),
                        FromInt(window)),
          loss |-> FDiv(FSum([k \in 1..window |-> LossOf(data, k)]),
                        FromInt(window))]
    ELSE LET prev == AvgAt(data, window, j - 1)
         IN  [gain |-> FDiv(FAdd(FMul(prev.gain, FromInt(window - 1)),
                                 GainOf(data, j + window)),
                            FromInt(window)),
              loss |-> FDiv(FAdd(FMul(prev.loss, FromInt(window - 1)),
                                 LossOf(data, j + window)),
                            FromInt(window))]

\* C4: for 1 <= window < n and any prices, every value compute_RSI returns
\* lies in [0, 100], and is exactly 100 whenever the average loss used for
\* its position is 0.
C4_RSI_Range ==
    (pc = "RSI" /\ ValidCall /\ NoAllocFailure) =>
        /\ ret # NULL
        /\ \A j \in 0..(Len(Result) - 1) :
              /\ Result[j + 1] # Uninit
              /\ FLe(FZero, Result[j + 1])
              /\ FLe(Result[j + 1], FromInt(100))
              /\ AvgAt(args.data, args.window, j).loss = FZero
                    => Result[j + 1] = FromInt(100)

\* A first window without a loss, and a later value strictly inside (0, 100).
C4_Witness ==
    /\ pc = "RSI" /\ ValidCall /\ ret # NULL
    /\ AvgAt(args.data, args.window, 0).loss = FZero
    /\ Result[1] = FromInt(100)
    /\ \E k \in 2..Len(Result) :
          FLt(FZero, Result[k]) /\ FLt(Result[k], FromInt(100))

\* The struct a call of compute_bollinger_bands returned, and its bands.
Bands == heap.mem[ret]

Middle == heap.mem[Bands.middle_band]

Top == heap.mem[Bands.top_band]

Bottom == heap.mem[Bands.bottom_band]

BandsCall ==
    pc = "BB" /\ ValidCall /\ FLt(FZero, args.std_devs) /\ NoAllocFailure

\* C5: for 1 <= window < n and a positive multiplier, compute_bollinger_bands
\* returns bands of length n - window + 1 with bottom_band[i] <= middle_band[i]
\* <= top_band[i] at every index, middle_band the SMA of the same prices and
\* window.
C5_BandsOrdered ==
    BandsCall =>
        /\ ret # NULL
        /\ heap.errs = {}
        /\ Bands.length = args.length - args.window + 1
        /\ Len(Middle) = Bands.length
        /\ Len(Top) = Bands.length
        /\ Len(Bottom) = Bands.length
        /\ \A i \in 1..Bands.length :
              /\ Middle[i] = Mean(args.data, i - 1, args.window)
              /\ FLe(Bottom[i], Middle[i])
              /\ FLe(Middle[i], Top[i])

\* Bands strictly apart.
C5_Witness ==
    /\ BandsCall /\ ret # NULL
    /\ \E i \in 1..Bands.length :
          FLt(Bottom[i], Middle[i]) /\ FLt(Middle[i], Top[i])

\* The standard deviations compute_std_devs computes for a series and a
\* window, from the means compute_SMA computes.
StdDevsAfter(c, std_devs) == c.h.mem[std_devs]

StdDevsInto(m, s, data, window) ==
    StdDevsAfter(compute_std_devs(m.h, 1, Len(data), window, s.ret, m.ptr), m.ptr)

StdDevsFrom(s, data, window) ==
    StdDevsInto(Malloc(s.h, Len(data) - window + 1), s, data, window)

StdDevsOf(data, window) ==
    StdDevsFrom(compute_SMA(CallerBlock(EmptyHeap({}), data), 1, Len(data), window),
                data, window)

ConstantSeries(data) == \A k \in 1..Len(data) : data[k] = data[1]

\* C6 as stated: for a constant series, a valid window and a positive
\* multiplier, every standard deviation compute_std_devs computes is exactly
\* 0, and top_band[i] == middle_band[i] == bottom_band[i] at every index.
C6_ConstantSeriesExact ==
    (BandsCall /\ ConstantSeries(args.data)) =>
        /\ ret # NULL
        /\ \A i \in 1..Bands.length :
              /\ StdDevsOf(args.data, args.window)[i] = FZero
              /\ Top[i] = Middle[i]
              /\ Bottom[i] = Middle[i]

\* C6 amended: for a constant series, a valid window and a positive
\* multiplier, at every index where the mean compute_SMA computed equals the
\* constant price, the standard deviation is exactly 0 and top_band[i] ==
\* middle_band[i] == bottom_band[i].
C6_ConstantSeriesExactMean ==
    (BandsCall /\ ConstantSeries(args.data)) =>
        /\ ret # NULL
        /\ \A i \in 1..Bands.length :
              Middle[i] = args.data[1] =>
                 /\ StdDevsOf(args.data, args.window)[i] = FZero
                 /\ Top[i] = Middle[i]
                 /\ Bottom[i] = Middle[i]

C6_Witness ==
    /\ BandsCall /\ ConstantSeries(args.data) /\ ret # NULL
    /\ args.length = MaxLen /\ args.window = 3
    /\ Middle[1] = args.data[1]
    /\ Top[1] = Middle[1]

Macd == heap.mem[ret]

OBVCall ==
    /\ pc = "OBV" /\ ~args.null
    /\ args.length = Len(args.data) /\ args.length > 0
    /\ NoAllocFailure

NonDecreasing(s) == \A i \in 1..(Len(s) - 1) : FLe(s[i], s[i + 1])

\* OBV[0] == 0, n values, and each value from the one before it by the
\* direction of the price.
OBV_Recurrence ==
    /\ ret # NULL
    /\ heap.errs = {}
    /\ Len(Result) = args.length
    /\ Result[1] = FZero
    /\ \A i \in 2..args.length :
          Result[i] =
             IF FLt(args.data[i - 1], args.data[i])
             THEN FAdd(Result[i - 1], args.volumes[i])
             ELSE IF FLt(args.data[i], args.data[i - 1])
                  THEN FSub(Result[i - 1], args.volumes[i])
                  ELSE Result[i - 1]

\* C9 as stated: compute_OBV on equal-length price and volume series of
\* length n > 0 returns n values with OBV[0] == 0, each following the
\* recurrence, and the series is non-decreasing whenever the prices are
\* non-decreasing throughout.
C9_OBV_Monotone ==
    OBVCall =>
        /\ OBV_Recurrence
        /\ NonDecreasing(args.data) => NonDecreasing(Result)

\* C9 amended: as C9, the series being non-decreasing whenever the prices
\* are non-decreasing throughout and no volume is negative.
C9_OBV_MonotoneNonNegative ==
    OBVCall =>
        /\ OBV_Recurrence
        /\ (/\ NonDecreasing(args.data)
            /\ \A i \in 1..args.length : FLe(FZero, args.volumes[i]))
              => NonDecreasing(Result)

\* Rising prices, volumes not negative, the series rising with them.
C9_Witness ==
    /\ OBVCall /\ ret # NULL
    /\ args.length = MaxLen
    /\ NonDecreasing(args.data)
    /\ \A i \in 1..args.length : FLe(FZero, args.volumes[i])
    /\ FLt(Result[1], Result[2])
    /\ FLt(Result[2], Result[MaxLen])

\* The arguments a windowed indicator is to reject: a null or empty series,
\* window <= 0, window >= length, and for the bands a multiplier <= 0.
InvalidArgument ==
    \/ args.null
    \/ args.length <= 0
    \/ args.window <= 0
    \/ args.window >= args.length
    \/ pc = "BB" /\ FLe(args.std_devs, FZero)

\* C10: whenever an indicator call is rejected for an invalid argument, the
\* rejection comes before the call performs any allocation: no malloc has
\* been executed in that call, and no output is produced.
C10_RejectBeforeMalloc ==
    (pc \in {"SMA", "EMA", "RSI", "BB"} /\ InvalidArgument) =>
        /\ ret = NULL
        /\ heap.mallocs = 0

\* C11: no indicator call ever terminates the process: for every input and
\* every pattern of allocation failures the call returns to its caller, an
\* allocation failure reported as NULL rather than by exiting.
C11_NeverExits ==
    pc \in {"SMA", "EMA", "RSI", "BB", "MACD", "OBV"} => ~heap.exited

CallerBlocks == IF args.null THEN {} ELSE {1}

ResultBlocks ==
    IF ret = NULL THEN {}
    ELSE IF pc = "BB"
         THEN {ret, Bands.middle_band, Bands.top_band, Bands.bottom_band}
         ELSE {ret}

\* C14: for compute_SMA, compute_EMA, compute_RSI and
\* compute_bollinger_bands, every input and every pattern of allocation
\* failures, each buffer the call allocated is freed or part of the returned
\* result: after a failure nothing the call allocated is live, after a
\* success no intermediate buffer is.
C14_NoLeak ==
    pc \in {"SMA", "EMA", "RSI", "BB"} =>
        heap.live = CallerBlocks \cup ResultBlocks

\* A failure after four allocations that succeeded.
C14_Witness ==
    /\ pc = "BB" /\ ret = NULL
    /\ Len(heap.mem) = 5
    /\ heap.live = {1}

\* C15: the three band buffers of a BollingerBands result are pairwise
\* distinct allocations of their own, aliasing nothing freed or held
\* elsewhere; after a successful compute_bollinger_bands and one
\* cleanup_bands, and on each failure path of compute_bollinger_bands under
\* any pattern of allocation failures, every buffer and the struct are
\* freed exactly once and no freed or unassigned pointer is passed to free.
C15_BandsOwnership ==
    /\ [](/\ (pc = "BB" /\ ret # NULL) =>
                /\ Cardinality(ResultBlocks) = 4
                /\ ResultBlocks \subseteq heap.live
                /\ ResultBlocks \cap CallerBlocks = {}
          /\ pc = "BB" =>
                /\ "invalid free" \notin heap.errs
                /\ ret = NULL => heap.live = CallerBlocks)
    /\ [][(pc = "BB" /\ pc' = "released") =>
             /\ "invalid free" \notin heap'.errs
             /\ heap'.live = CallerBlocks]_vars

\* After cleanup_bands: the caller's series, and the five blocks of
\* compute_bollinger_bands all released.
C15_Witness ==
    /\ pc = "released"
    /\ Len(heap.mem) = 6
    /\ FLt(FZero, args.std_devs)
    /\ heap.live = {1}
    /\ heap.errs = {}

(***************************************************************************)
(* Calls running concurrently.  Each thread runs one indicator call on the *)
(* one heap, a statement at a time; its parameters and locals are in the   *)
(* frames of its stack.  A statement gives [h, f, op, x]: the heap and the *)
(* frame after it, and whether the function goes on ("next"), calls a      *)
(* function whose frame is x ("call"), returns x ("ret") or calls exit     *)
(* ("exit").  The value a callee returned is in the caller's v.rv.         *)
(***************************************************************************)
Go(h, f) == [h |-> h, f |-> f, op |-> "next", x |-> NULL]

CallFn(h, f, callee) == [h |-> h, f |-> f, op |-> "call", x |-> callee]

Return(h, f, value) == [h |-> h, f |-> f, op |-> "ret", x |-> value]

Exit(h, f) == [h |-> [h EXCEPT !.exited = TRUE], f |-> f, op |-> "exit", x |-> NULL]

\* compute_SMA(prices, length, window) as it is entered.
SMA_frame(prices, length, window) ==
    [fn |-> "compute_SMA", pc |-> "guard",
     a |-> [prices |-> prices, length |-> length, window |-> window],
     v |-> [result_length |-> 0, SMA_Values |-> NULL, i |-> 0, j |-> 0,
            sum |-> FZero, rv |-> NULL]]

\* One statement of compute_SMA.
SMA_step(h, f) ==
    CASE f.pc = "guard" ->
           IF SMA_rejects(f.a.prices, f.a.length, f.a.window)
           THEN Return(h, f, NULL)
           ELSE Go(h, [f EXCEPT !.pc = "malloc",
                                !.v.result_length =
                                   SMA_result_length(f.a.length, f.a.window)])
      [] f.pc = "malloc" ->
           LET m == Malloc(h, f.v.result_length)
           IN  IF m.ptr = NULL
               THEN Return(Fprintf(m.h, "Malloc failed."), f, NULL)
               ELSE Go(m.h, [f EXCEPT !.pc = "outer", !.v.SMA_Values = m.ptr,
                                      !.v.i = 0])
      [] f.pc = "outer" ->
           IF f.v.i < f.v.result_length
           THEN Go(h, [f EXCEPT !.pc = "inner", !.v.sum = FZero, !.v.j = 0])
           ELSE Return(h, f, f.v.SMA_Values)
      [] f.pc = "inner" ->
           IF f.v.j < f.a.window
           THEN Go(Touch(h, f.a.prices, f.v.i + f.v.j, f.v.i + f.v.j),
                   [f EXCEPT !.v.sum = FAdd(@, Load(h, f.a.prices, f.v.i + f.v.j)),
                             !.v.j = @ + 1])
           ELSE Go(Store(h, f.v.SMA_Values, f.v.i,
                         FDiv(f.v.sum, FromInt(f.a.window))),
                   [f EXCEPT !.pc = "outer", !.v.i = @ + 1])

\* get_SMA(prices, length, window) as it is entered.
get_SMA_frame(prices, length, window) == SMA_frame(prices, length, window)

\* compute_EMA(prices, length, window) as it is entered.
EMA_frame(prices, length, window) ==
    [fn |-> "compute_EMA", pc |-> "guard",
     a |-> [prices |-> prices, length |-> length, window |-> window],
     v |-> [result_length |-> 0, alpha |-> FZero, EMA_Values |-> NULL,
            SMA_Values |-> NULL, i |-> 0, rv |-> NULL]]

\* One statement of compute_EMA.
EMA_step(h, f) ==
    CASE f.pc = "guard" ->
           IF EMA_rejects(f.a.prices, f.a.length, f.a.window)
           THEN Return(h, f, NULL)
           ELSE Go(h, [f EXCEPT !.pc = "malloc",
                                !.v.result_length =
                                   EMA_result_length(f.a.length, f.a.window),
                                !.v.alpha = EMA_alpha(f.a.window)])
      [] f.pc = "malloc" ->
           LET m == Malloc(h, f.v.result_length)
           IN  Go(m.h, [f EXCEPT !.pc = "get_SMA", !.v.EMA_Values = m.ptr])
      [] f.pc = "get_SMA" ->
           CallFn(h, [f EXCEPT !.pc = "validate"],
                  get_SMA_frame(f.a.prices, f.a.length, f.a.window))
      [] f.pc = "validate" ->
           IF f.v.EMA_Values = NULL
           THEN Return(Fprintf(Free(h, f.v.rv), "Malloc failed."), f, NULL)
           ELSE IF f.v.rv = NULL
           THEN Return(Fprintf(Free(Free(h, f.v.EMA_Values), f.v.rv),
                               "Get SMA failed."), f, NULL)
           ELSE Go(h, [f EXCEPT !.pc = "seed", !.v.SMA_Values = f.v.rv])
      [] f.pc = "seed" ->
           Go(Store(Touch(h, f.v.SMA_Values, 0, 0), f.v.EMA_Values, 0,
                    Load(h, f.v.SMA_Values, 0)),
              [f EXCEPT !.pc = "loop", !.v.i = 1])
      [] f.pc = "loop" ->
           IF f.v.i < f.v.result_length
           THEN Go(Store(Touch(Touch(h, f.a.prices,
                                     EMA_price_index(f.v.i, f.a.window),
                                     EMA_price_index(f.v.i, f.a.window)),
                               f.v.EMA_Values, f.v.i - 1, f.v.i - 1),
                         f.v.EMA_Values, f.v.i,
                         EMA_next(Load(h, f.a.prices,
                                       EMA_price_index(f.v.i, f.a.window)),
                                  Load(h, f.v.EMA_Values, f.v.i - 1), f.v.alpha)),
                   [f EXCEPT !.v.i = @ + 1])
           ELSE Go(Free(h, f.v.SMA_Values), [f EXCEPT !.pc = "return"])
      [] f.pc = "return" -> Return(h, f, f.v.EMA_Values)

\* compute_RSI(prices, length, window) as it is entered.
RSI_frame(prices, length, window) ==
    [fn |-> "compute_RSI", pc |-> "guard",
     a |-> [prices |-> prices, length |-> length, window |-> window],
     v |-> [result_length |-> 0, RSI_Values |-> NULL, changes |-> NULL,
            gains |-> NULL, losses |-> NULL, i |-> 0,
            gain_sum |-> FZero, loss_sum |-> FZero,
            avg_gain |-> FZero, avg_loss |-> FZero, rv |-> NULL]]

\* The frame after one step of the first window or of the later loop; st is
\* [h, gain_sum, loss_sum] or [h, avg_gain, avg_loss].
RSI_first_next(f, st) ==
    Go(st.h, [f EXCEPT !.v.gain_sum = st.gain_sum, !.v.loss_sum = st.loss_sum,
                       !.v.i = @ + 1])

RSI_loop_next(f, st, pc_next, i_next) ==
    Go(st.h, [f EXCEPT !.v.avg_gain = st.avg_gain, !.v.avg_loss = st.avg_loss,
                       !.v.i = i_next, !.pc = pc_next])

\* malloc of one of the work arrays, then on to pc_next.
RSI_work_next(f, m, array, pc_next) ==
    Go(m.h, [f EXCEPT !.v[array] = m.ptr, !.pc = pc_next])

\* One statement of compute_RSI.
RSI_step(h, f) ==
    CASE f.pc = "guard" ->
           IF RSI_rejects(f.a.prices, f.a.length, f.a.window)
           THEN Return(h, f, NULL)
           ELSE Go(h, [f EXCEPT !.pc = "malloc",
                                !.v.result_length =
                                   RSI_result_length(f.a.length, f.a.window)])
      [] f.pc = "malloc" ->
           LET m == Malloc(h, f.v.result_length)
           IN  IF m.ptr = NULL
               THEN Return(Fprintf(m.h, "Malloc failed."), f, NULL)
               ELSE Go(m.h, [f EXCEPT !.pc = "malloc_changes",
                                      !.v.RSI_Values = m.ptr])
      [] f.pc = "malloc_changes" ->
           RSI_work_next(f, Malloc(h, f.a.length - 1), "changes", "malloc_gains")
      [] f.pc = "malloc_gains" ->
           RSI_work_next(f, Malloc(h, f.a.length - 1), "gains", "malloc_losses")
      [] f.pc = "malloc_losses" ->
           RSI_work_next(f, Malloc(h, f.a.length - 1), "losses", "check")
      [] f.pc = "check" ->
           IF f.v.changes = NULL \/ f.v.gains = NULL \/ f.v.losses = NULL
           THEN Exit(Fprintf(Free(Free(Free(Free(h, f.v.RSI_Values), f.v.changes),
                                       f.v.gains), f.v.losses),
                             "Malloc failed."), f)
           ELSE Go(h, [f EXCEPT !.pc = "changes", !.v.i = 1])
      [] f.pc = "changes" ->
           IF f.v.i < f.a.length
           THEN Go(Store(Touch(h, f.a.prices, f.v.i - 1, f.v.i), f.v.changes,
                         f.v.i - 1,
                         FSub(Load(h, f.a.prices, f.v.i),
                              Load(h, f.a.prices, f.v.i - 1))),
                   [f EXCEPT !.v.i = @ + 1])
           ELSE Go(h, [f EXCEPT !.pc = "first", !.v.i = 0,
                                !.v.gain_sum = FZero, !.v.loss_sum = FZero])
      [] f.pc = "first" ->
           IF f.v.i < f.a.window
           THEN RSI_first_next(f,
                   RSI_first_step([h |-> Touch(h, f.v.changes, f.v.i, f.v.i),
                                   gain_sum |-> f.v.gain_sum,
                                   loss_sum |-> f.v.loss_sum],
                                  Load(h, f.v.changes, f.v.i), f.v.gains,
                                  f.v.losses, f.v.i))
           ELSE Go(h, [f EXCEPT !.pc = "average"])
      [] f.pc = "average" ->
           RSI_loop_next(f,
              RSI_store(h, FDiv(f.v.gain_sum, FromInt(f.a.window)),
                        FDiv(f.v.loss_sum, FromInt(f.a.window)), f.v.RSI_Values, 0),
              "loop", f.a.window)
      [] f.pc = "loop" ->
           IF f.v.i < RSI_loop_end(f.a.length)
           THEN RSI_loop_next(f,
                   RSI_store(Touch(h, f.v.changes, f.v.i, f.v.i),
                             Wilder(f.v.avg_gain,
                                    RSI_gain(Load(h, f.v.changes, f.v.i)),
                                    f.a.window),
                             Wilder(f.v.avg_loss,
                                    RSI_loss(Load(h, f.v.changes, f.v.i)),
                                    f.a.window),
                             f.v.RSI_Values, f.v.i - f.a.window + 1),
                   "loop", f.v.i + 1)
           ELSE Go(h, [f EXCEPT !.pc = "free"])
      [] f.pc = "free" ->
           Return(RSI_done([h |-> h], f.v, f.v.RSI_Values).h, f, f.v.RSI_Values)

\* compute_std_devs(prices, length, window, means, std_devs) as it is entered.
std_devs_frame(prices, length, window, means, std_devs) ==
    [fn |-> "compute_std_devs", pc |-> "guard",
     a |-> [prices |-> prices, length |-> length, window |-> window,
            means |-> means, std_devs |-> std_devs],
     v |-> [result_length |-> 0, i |-> 0, j |-> 0, sum |-> FZero, rv |-> NULL]]

\* One statement of compute_std_devs.
std_devs_step(h, f) ==
    CASE f.pc = "guard" ->
           IF \/ f.a.prices = NULL \/ f.a.means = NULL \/ f.a.std_devs = NULL
              \/ f.a.length <= 0 \/ f.a.window <= 0 \/ f.a.window > f.a.length
           THEN Return(h, f, EXIT_FAILURE)
           ELSE Go(h, [f EXCEPT !.pc = "outer", !.v.i = 0,
                                !.v.result_length = f.a.length - f.a.window + 1])
      [] f.pc = "outer" ->
           IF f.v.i < f.v.result_length
           THEN Go(h, [f EXCEPT !.pc = "inner", !.v.sum = FZero, !.v.j = 0])
           ELSE Return(h, f, EXIT_SUCCESS)
      [] f.pc = "inner" ->
           IF f.v.j < f.a.window
           THEN Go(Touch(Touch(h, f.a.prices, f.v.i + f.v.j, f.v.i + f.v.j),
                         f.a.means, f.v.i, f.v.i),
                   [f EXCEPT !.v.sum =
                                FAdd(@, Square(FSub(Load(h, f.a.prices,
                                                         f.v.i + f.v.j),
                                                    Load(h, f.a.means, f.v.i)))),
                             !.v.j = @ + 1])
           ELSE Go(Store(h, f.a.std_devs, f.v.i,
                         FSqrt(FDiv(f.v.sum, FromInt(f.a.window)))),
                   [f EXCEPT !.pc = "outer", !.v.i = @ + 1])

\* cleanup_bands(band_values) as it is entered.
cleanup_bands_frame(band_values) ==
    [fn |-> "cleanup_bands", pc |-> "middle_band",
     a |-> [band_values |-> band_values],
     v |-> [rv |-> NULL]]

\* One statement of cleanup_bands: the free of one field, or of the struct.
cleanup_bands_step(h, f) ==
    CASE f.pc = "middle_band" ->
           Go(Free(h, h.mem[f.a.band_values].middle_band),
              [f EXCEPT !.pc = "top_band"])
      [] f.pc = "top_band" ->
           Go(Free(h, h.mem[f.a.band_values].top_band),
              [f EXCEPT !.pc = "bottom_band"])
      [] f.pc = "bottom_band" ->
           Go(Free(h, h.mem[f.a.band_values].bottom_band),
              [f EXCEPT !.pc = "band_values"])
      [] f.pc = "band_values" ->
           Return(Free(h, f.a.band_values), f, NULL)

\* compute_bollinger_bands(prices, length, window, std_devs) as it is entered.
BB_frame(prices, length, window, std_devs) ==
    [fn |-> "compute_bollinger_bands", pc |-> "guard",
     a |-> [prices |-> prices, length |-> length, window |-> window,
            std_devs |-> std_devs],
     v |-> [band_values |-> NULL, result_length |-> 0, SMA_Values |-> NULL,
            stddev_values |-> NULL, i |-> 0, msg |-> "", rv |-> NULL]]

\* band_values->field = malloc(sizeof(double) * result_length), then on.
BB_field_next(f, m, field, pc_next) ==
    Go([m.h EXCEPT !.mem[f.v.band_values][field] = m.ptr],
       [f EXCEPT !.pc = pc_next])

\* A failure path: free(stddev_values), cleanup_bands(band_values), then the
\* message and return NULL.
BB_fail(h, f, msg) ==
    CallFn(Free(h, f.v.stddev_values), [f EXCEPT !.pc = "failed", !.v.msg = msg],
           cleanup_bands_frame(f.v.band_values))

\* One statement of compute_bollinger_bands.
BB_step(h, f) ==
    CASE f.pc = "guard" ->
           IF BB_rejects(f.a.prices, f.a.length, f.a.window, f.a.std_devs)
           THEN Return(h, f, NULL)
           ELSE Go(h, [f EXCEPT !.pc = "malloc"])
      [] f.pc = "malloc" ->
           LET m == MallocBands(h)
           IN  IF m.ptr = NULL
               THEN Return(Fprintf(m.h, "Malloc failed."), f, NULL)
               ELSE Go(m.h, [f EXCEPT !.pc = "compute_SMA",
                                      !.v.band_values = m.ptr,
                                      !.v.result_length =
                                         f.a.length - f.a.window + 1])
      [] f.pc = "compute_SMA" ->
           CallFn(h, [f EXCEPT !.pc = "assign"],
                  SMA_frame(f.a.prices, f.a.length, f.a.window))
      [] f.pc = "assign" ->
           Go([h EXCEPT !.mem[f.v.band_values].length = f.v.result_length,
                        !.mem[f.v.band_values].middle_band = f.v.rv],
              [f EXCEPT !.pc = "malloc_top", !.v.SMA_Values = f.v.rv])
      [] f.pc = "malloc_top" ->
           BB_field_next(f, Malloc(h, f.v.result_length), "top_band",
                         "malloc_bottom")
      [] f.pc = "malloc_bottom" ->
           BB_field_next(f, Malloc(h, f.v.result_length), "bottom_band",
                         "malloc_stddev")
      [] f.pc = "malloc_stddev" ->
           LET m == Malloc(h, f.v.result_length)
           IN  Go(m.h, [f EXCEPT !.pc = "check", !.v.stddev_values = m.ptr])
      [] f.pc = "check" ->
           IF \/ h.mem[f.v.band_values].top_band = NULL
              \/ h.mem[f.v.band_values].bottom_band = NULL
              \/ f.v.stddev_values = NULL
           THEN BB_fail(h, f, "Malloc failed.")
           ELSE IF f.v.SMA_Values = NULL
           THEN BB_fail(h, f, "Get SMA failed.")
           ELSE Go(h, [f EXCEPT !.pc = "compute_std_devs"])
      [] f.pc = "failed" -> Return(Fprintf(h, f.v.msg), f, NULL)
      [] f.pc = "compute_std_devs" ->
           CallFn(h, [f EXCEPT !.pc = "bands", !.v.i = 0],
                  std_devs_frame(f.a.prices, f.a.length, f.a.window,
                                 h.mem[f.v.band_values].middle_band,
                                 f.v.stddev_values))
      [] f.pc = "bands" ->
           IF f.v.i < f.v.result_length
           THEN Go(bands_loop(h, h.mem[f.v.band_values], f.a.std_devs,
                              f.v.stddev_values, f.v.i + 1, f.v.i),
                   [f EXCEPT !.v.i = @ + 1])
           ELSE Go(Free(h, f.v.stddev_values), [f EXCEPT !.pc = "return"])
      [] f.pc = "return" -> Return(h, f, f.v.band_values)

\* One statement of the function a frame is in.
Statement(h, f) ==
    CASE f.fn = "compute_SMA" -> SMA_step(h, f)
      [] f.fn = "compute_EMA" -> EMA_step(h, f)
      [] f.fn = "compute_RSI" -> RSI_step(h, f)
      [] f.fn = "compute_std_devs" -> std_devs_step(h, f)
      [] f.fn = "cleanup_bands" -> cleanup_bands_step(h, f)
      [] f.fn = "compute_bollinger_bands" -> BB_step(h, f)

\* A thread after the statement with outcome r of its topmost frame.
Advance(th, r) ==
    CASE r.op = "next" ->
           [th EXCEPT !.stack = <<r.f>> \o Tail(@), !.mallocs = r.h.mallocs]
      [] r.op = "call" ->
           [th EXCEPT !.stack = <<r.x, r.f>> \o Tail(@), !.mallocs = r.h.mallocs]
      [] r.op = "ret" /\ Len(th.stack) = 1 ->
           [th EXCEPT !.stack = <<>>, !.mallocs = r.h.mallocs,
                      !.status = "returned", !.ret = r.x]
      [] r.op = "ret" /\ Len(th.stack) > 1 ->
           [th EXCEPT !.stack = <<[th.stack[2] EXCEPT !.v.rv = r.x]>>
                                   \o Tail(Tail(@)),
                      !.mallocs = r.h.mallocs]
      [] r.op = "exit" ->
           [th EXCEPT !.stack = <<>>, !.mallocs = r.h.mallocs,
                      !.status = "exited"]

\* The calls two threads make at once on one series: every indicator, every
\* window up to the length of the series, and for the first thread with or
\* without its second malloc failing.
ConcLen == 3

Threads == {1, 2}

ConcSeries ==
    [i \in 1..ConcLen |->
        IF i % 3 = 1 THEN Tenth ELSE IF i % 3 = 2 THEN FromInt(2) ELSE FromInt(-3)]

ConcFails(t) == IF t = 1 THEN {{}, {2}} ELSE {{}}

ConcCalls(t) ==
    [fn : {"compute_SMA", "compute_EMA", "compute_RSI", "compute_bollinger_bands"},
     length : {ConcLen}, window : 1..ConcLen, fail : ConcFails(t)]

\* The frame of a call on the caller's series, block 1.
CallFrame(c) ==
    CASE c.fn = "compute_SMA" -> SMA_frame(1, c.length, c.window)
      [] c.fn = "compute_EMA" -> EMA_frame(1, c.length, c.window)
      [] c.fn = "compute_RSI" -> RSI_frame(1, c.length, c.window)
      [] c.fn = "compute_bollinger_bands" ->
           BB_frame(1, c.length, c.window, FromInt(2))

\* A thread about to make the call c.
Thread(c) ==
    [call |-> c, stack |-> <<CallFrame(c)>>, mallocs |-> 0, fail |-> c.fail,
     status |-> "running", ret |-> NULL]

ConcInit ==
    /\ pc = "concurrent"
    /\ args = [NoArgs EXCEPT !.null = FALSE, !.data = ConcSeries,
                             !.length = ConcLen]
    /\ heap = CallerBlock(EmptyHeap({}), ConcSeries)
    /\ ret = NULL
    /\ thr \in {<<Thread(c1), Thread(c2)>> : c1 \in ConcCalls(1), c2 \in ConcCalls(2)}

\* The heap as thread t's mallocs see it: its own count of mallocs and the
\* mallocs that fail for it.
View(t) == [heap EXCEPT !.mallocs = thr[t].mallocs, !.fail = thr[t].fail]

\* The state after thread t's statement with outcome r.
Ran(t, r) ==
    /\ heap' = [r.h EXCEPT !.mallocs = heap.mallocs + r.h.mallocs - thr[t].mallocs,
                           !.fail = heap.fail]
    /\ thr' = [thr EXCEPT ![t] = Advance(@, r)]
    /\ UNCHANGED <<pc, args, ret>>

\* Thread t runs one statement of the function fn it is in.
Runs(t, fn) ==
    /\ thr[t].status = "running"
    /\ thr[t].stack[1].fn = fn
    /\ Ran(t, Statement(View(t), thr[t].stack[1]))

\* No thread runs once a call has ended the process.
Step_compute_SMA ==
    /\ pc = "concurrent" /\ ~heap.exited
    /\ \E t \in Threads : Runs(t, "compute_SMA")

Step_compute_EMA ==
    /\ pc = "concurrent" /\ ~heap.exited
    /\ \E t \in Threads : Runs(t, "compute_EMA")

Step_compute_RSI ==
    /\ pc = "concurrent" /\ ~heap.exited
    /\ \E t \in Threads : Runs(t, "compute_RSI")

Step_compute_std_devs ==
    /\ pc = "concurrent" /\ ~heap.exited
    /\ \E t \in Threads : Runs(t, "compute_std_devs")

Step_cleanup_bands ==
    /\ pc = "concurrent" /\ ~heap.exited
    /\ \E t \in Threads : Runs(t, "cleanup_bands")

Step_compute_bollinger_bands ==
    /\ pc = "concurrent" /\ ~heap.exited
    /\ \E t \in Threads : Runs(t, "compute_bollinger_bands")

ConcNext ==
    \/ Step_compute_SMA
    \/ Step_compute_EMA
    \/ Step_compute_RSI
    \/ Step_compute_std_devs
    \/ Step_cleanup_bands
    \/ Step_compute_bollinger_bands

ConcSpec == ConcInit /\ [][ConcNext]_vars

\* The call c run alone on the series.
Alone(c) ==
    CASE c.fn = "compute_SMA" ->
           compute_SMA(CallerBlock(EmptyHeap(c.fail), ConcSeries), 1, c.length,
                       c.window)
      [] c.fn = "compute_EMA" ->
           compute_EMA(CallerBlock(EmptyHeap(c.fail), ConcSeries), 1, c.length,
                       c.window)
      [] c.fn = "compute_RSI" ->
           compute_RSI(CallerBlock(EmptyHeap(c.fail), ConcSeries), 1, c.length,
                       c.window)
      [] c.fn = "compute_bollinger_bands" ->
           compute_bollinger_bands(CallerBlock(EmptyHeap(c.fail), ConcSeries), 1,
                                   c.length, c.window, FromInt(2))

\* What the caller of fn finds behind the pointer r it was returned.
Outcome(h, fn, r) ==
    IF r = NULL THEN [null |-> TRUE, value |-> <<>>]
    ELSE IF fn = "compute_bollinger_bands"
    THEN [null |-> FALSE,
          value |-> [length |-> h.mem[r].length,
                     middle_band |-> h.mem[h.mem[r].middle_band],
                     top_band |-> h.mem[h.mem[r].top_band],
                     bottom_band |-> h.mem[h.mem[r].bottom_band]]]
    ELSE [null |-> FALSE, value |-> h.mem[r]]

AloneOutcome(a, fn) == Outcome(a.h, fn, a.ret)

\* C12: indicator calls share no mutable state: when two calls run
\* concurrently, their statements interleaved in any order, on the same
\* series, each returns exactly the result it returns when run alone, and
\* the series holds the same values after the calls as before.
C12_ConcurrentAsAlone ==
    pc = "concurrent" =>
        /\ 1 \in heap.live
        /\ heap.mem[1] = ConcSeries
        /\ \A t \in Threads :
              /\ thr[t].status = "returned" =>
                    /\ ~Alone(thr[t].call).h.exited
                    /\ Outcome(heap, thr[t].call.fn, thr[t].ret)
                          = AloneOutcome(Alone(thr[t].call), thr[t].call.fn)
              /\ (thr[t].status = "running" /\ heap.exited) =>
                    Alone(thr[t].call).h.exited

====
